---- MODULE Spec2Model ----
(***************************************************************************)
(* Model of the rustlink polling engine: the lifecycle controller          *)
(* (Rustlink::try_new / start / stop, src/src/core.rs) and the fetch loop  *)
(* (fetch_rounds, src/src/fetcher/mod.rs).                                 *)
(*                                                                         *)
(* One controller instance is modelled.  Every start() spawns one          *)
(* fetch_rounds task that works on a clone of the controller; all clones   *)
(* share the termination channel, the shutdown (acknowledgement) channel   *)
(* and the reflector channel, which are async-std channels.                *)
(***************************************************************************)
EXTENDS Naturals, Sequences, FiniteSets, TLC

\* ---------------------------------------------------------------- bounds
\* Longest feed list (configuration.contracts) the model draws.
MaxFeeds == 2
\* Number of start() calls the model follows on the controller.
MaxStarts == 2
\* Number of stop() calls the model follows on the controller.
MaxStops == 2
\* Number of contract reads (over all tasks) the model follows.
MaxAttempts == 3

VARIABLES
    target,        \* build of Rustlink::start: "native" or "wasm32" (cfg(target_arch))
    contracts,     \* configuration.contracts: the feed list, in registry order
    tasks,         \* the fetch_rounds tasks spawned so far, in spawn order
    termination,   \* number of () queued in the termination channel
    shutdown,      \* number of () queued in the shutdown channel
    open,          \* the reflector channel still has a receiver (is not closed)
    queue,         \* the Rounds sent into the reflector channel, in send order
    results,       \* history: the contract reads resolved, in resolution order
    errors,        \* number of "Failed updating price" log records
    sendErrors,    \* number of "Failed sending data" log records
    callerPc,      \* the thread that calls start(): "ready" or "in_start"
    stopWaiting,   \* stop() calls that sent their notice and wait in shutdown_recv.recv()
    stopReturned,  \* stop() calls that returned Ok(())
    stopErrored,   \* stop() calls that returned Err(RecvError)
    fetch_interval_seconds,  \* configuration.fetch_interval_seconds of the controller
    cap,           \* capacity of the reflector channel the user created (Unbounded: none)
    ticks,         \* history: interval ticks each task has consumed
    late,          \* history: contract reads issued while a termination notice was queued
    receivers,     \* the live clones of the reflector channel's receiver
    consumed,      \* number of Rounds already received from the reflector channel
    observed,      \* history: the Rounds each receiver has received, in order
    tree,          \* the store variant's sled tree: ticker -> stored bytes
    puts,          \* history: what was stored under each ticker, in order
    readOut,       \* the result of the last get_price call
    ser,           \* a PriceData on its way through to_bin and from_bin
    chain,         \* a Chain preset being built and queried
    forwarders,    \* the forwarding tasks RustlinkJS::start spawned
    calls          \* history: the invocations of the JS callback, in order

\* The variables of the polling engine proper.
pollVars == <<target, contracts, tasks, termination, shutdown, open, queue,
              results, errors, sendErrors, callerPc, stopWaiting, stopReturned,
              stopErrored>>

\* The variables the polling engine's operations leave alone: the controller's
\* interval field, the histories, the subscribers, the store variant and the
\* pure functions' inputs.
subscriberVars == <<receivers, consumed, observed>>

libVars == <<tree, puts, readOut, ser, chain>>

jsVars == <<forwarders, calls>>

others == <<fetch_interval_seconds, cap, ticks, late, subscriberVars, libVars, jsVars>>

vars == <<target, contracts, tasks, termination, shutdown, open, queue,
          results, errors, sendErrors, callerPc, stopWaiting, stopReturned, stopErrored,
          fetch_interval_seconds, cap, ticks, late, receivers, consumed, observed,
          tree, puts, readOut, ser, chain, forwarders, calls>>

Targets == {"native", "wasm32"}

\* The feed lists drawn: n feeds with distinct identifiers, n = 0 .. MaxFeeds.
FeedLists == {[i \in 1..n |-> i] : n \in 0..MaxFeeds}

\* A task is a running fetch_rounds future while it is in one of these places.
RunningPcs == {"spawned", "loop", "for_end", "select", "fetching"}

Running(l) == tasks[l].pc \in RunningPcs

RunningTasks == {l \in 1..Len(tasks) : Running(l)}

\* The tasks whose contract read is in flight.
InFlight == {l \in 1..Len(tasks) : tasks[l].pc = "fetching"}

\* ------------------------------------------------------- pieces of the code

\* The Configuration of the controller as start() clones it into the task.
ControllerConfiguration ==
    [contracts |-> contracts, fetch_interval_seconds |-> fetch_interval_seconds]

\* The feed list task l iterates: `&rustlink.configuration.contracts` of its own
\* clone of the controller, taken by start() (TaskContractsShared: the
\* controller's list instead, when it has as many feeds).
TaskContractsShared(l) ==
    IF Len(contracts) = Len(tasks[l].configuration.contracts)
    THEN contracts
    ELSE tasks[l].configuration.contracts
TaskContracts(l) == tasks[l].configuration.contracts

\* How start() runs fetch_rounds(self.clone()): tokio::task::spawn on the native
\* build; async_std::task::block_on on wasm32, which on wasm32-unknown-unknown
\* (the wasm-bindgen target) hands the future to the local executor and returns.
SpawnModeBlocking(t) == IF t = "native" THEN "spawn" ELSE "block"
SpawnMode(t) == IF t = "native" THEN "spawn" ELSE "spawn_local"

\* Where fetch_rounds first waits, for a list of n feeds: the select! is inside
\* the `for`, so with no feed the task stays in the `loop` around it.
EntryPcSelect(n) == "select"
EntryPc(n) == IF n = 0 THEN "loop" ELSE "select"

\* Where the `for contract_configuration in contracts` inside `loop` goes after
\* feed i of n: the next feed, or the first feed of the next cycle.
NextIndexRestart(i, n) == 1
NextIndex(i, n) == IF i = n THEN 1 ELSE i + 1

\* The feed position after the match on the read's result: neither arm leaves
\* the for loop, so both go on to the next iteration.
AfterFetchRetry(i, n, res) == IF res = "err" THEN i ELSE NextIndex(i, n)
AfterFetch(i, n, res) == NextIndex(i, n)

\* The task's place after the match on the read's result (sent: the result of
\* sender.send, "none" when nothing was sent): every arm ends the select.
PcAfterFetchRetryNow(res, sent) == IF res = "err" THEN "fetching" ELSE "select"
PcAfterFetchBail(res, sent) == IF res = "err" THEN "exited" ELSE "select"
PcAfterFetchUnwrap(res, sent) == IF sent = "err" THEN "exited" ELSE "select"
PcAfterFetch(res, sent) == "select"

\* The reflector channel's capacity: unbounded() has none, bounded(c) holds c
\* Rounds that no receiver has taken yet.
Unbounded == 0
MaxCap == 1
Caps == 1..MaxCap
Buffered == Len(queue) - consumed
SinkFull == cap # Unbounded /\ Buffered >= cap

\* When sender.send(round).await completes: the channel is closed (Err) or has
\* room (Ok). Nothing else wakes it: the select! already chose the tick arm and
\* shutdown_future is not polled inside the arm's body.
DeliverResumesOnCancel == ~open \/ ~SinkFull \/ termination > 0
DeliverResumes == ~open \/ ~SinkFull

\* sender.send(round) on the async-std channel: Err(SendError) iff it is closed.
SendResult(isOpen) == IF isOpen THEN "ok" ELSE "err"

\* The reflector channel after the match: the Ok arm sends the Round, a failed
\* send drops it, the Err arm sends nothing.
QueueAfterLost(q, res, sent, round) == q
QueueAfterDup(q, res, sent, round) ==
    IF res = "ok" /\ sent = "ok" THEN Append(Append(q, round), round) ELSE q
QueueAfter(q, res, sent, round) ==
    IF res = "ok" /\ sent = "ok" THEN Append(q, round) ELSE q

\* log::error!("Failed updating price: {}", error) in the Err arm.
ErrorsAfter(e, res) == IF res = "err" THEN e + 1 ELSE e

\* log::error!("Failed sending data: {}", error) when the send failed.
SendErrorsAfter(e, sent) == IF sent = "err" THEN e + 1 ELSE e

\* termination_recv.recv() resolving in one task: the channel hands the queued
\* () to that receiver and it is gone for every other clone.
TerminationAfterRecvPeek(n) == n
TerminationAfterRecv(n) == n - 1

\* Senders of the shutdown channel that are alive: the controller's own
\* shutdown_send field and the clone each running task holds.
ShutdownSenders == 1 + Cardinality(RunningTasks)

\* shutdown_recv.recv(): a queued () is received; an empty channel with no
\* sender left is closed; otherwise the receive stays pending.
ShutdownRecvNoWait == "ok"
ShutdownRecv ==
    IF shutdown > 0 THEN "ok"
    ELSE IF ShutdownSenders = 0 THEN "closed"
    ELSE "pending"

\* The Round a contract read returns: the feed's identifier and the round id,
\* here the number of the read among all reads resolved.
RoundOf(feed, k) == [identifier |-> feed, round_id |-> k]

\* ------------------------------------------- PriceData and its binary form

\* Values are written as bytes (0..255). An integer field is its digits in base
\* 256, most significant first; a String is its UTF-8 bytes; an f64 is its
\* IEEE-754 bit pattern, most significant byte first.
U128Bytes == 16
U64Bytes == 8
F64Bytes == 8

Reverse(bs) == [i \in 1..Len(bs) |-> bs[Len(bs) + 1 - i]]

\* to_le_bytes / from_le_bytes of a fixed-width integer or float (FixedFromBE:
\* from_be_bytes).
FixedFromBE(bs) == bs
FixedToLE(bs) == Reverse(bs)
FixedFromLE(bs) == Reverse(bs)

\* The u64 length prefix of a String, little-endian.
LenToLE(n) ==
    [i \in 1..U64Bytes |->
        IF i = 1 THEN n % 256
        ELSE IF i = 2 THEN (n \div 256) % 256
        ELSE IF i = 3 THEN (n \div 65536) % 256
        ELSE 0]

\* The length a little-endian u64 prefix states; TooLong stands for every
\* length of 2^24 or more, which no input of the model can hold.
TooLong == 16777216
LenFromLE(bs) ==
    IF \E i \in 4..U64Bytes : bs[i] # 0
    THEN TooLong
    ELSE bs[1] + 256 * bs[2] + 65536 * bs[3]

\* str::from_utf8 on the bytes the model draws: ASCII bytes are valid, the
\* byte 0xFF occurs in no UTF-8 text.
Utf8Valid(bs) == \A i \in 1..Len(bs) : bs[i] < 128

\* bincode::serialize(&self): the fields in declaration order, integers and
\* floats fixed-width little-endian, Strings as u64 length then bytes.
to_bin(r) ==
    FixedToLE(r.round_id) \o FixedToLE(r.answered_in_round)
        \o LenToLE(Len(r.started_at)) \o r.started_at
        \o LenToLE(Len(r.updated_at)) \o r.updated_at
        \o FixedToLE(r.price)

BinError == [ok |-> FALSE]

\* Reading a String at offset p of d: the position after it, or 0 when the
\* prefix or the bytes run past the end or the bytes are not UTF-8.
StringEnd(d, p) ==
    IF p + U64Bytes > Len(d) THEN 0
    ELSE LET n == LenFromLE(SubSeq(d, p + 1, p + U64Bytes))
         IN IF n = TooLong \/ p + U64Bytes + n > Len(d) THEN 0
            ELSE IF ~Utf8Valid(SubSeq(d, p + U64Bytes + 1, p + U64Bytes + n)) THEN 0
            ELSE p + U64Bytes + n

StringAt(d, p) == SubSeq(d, p + U64Bytes + 1, StringEnd(d, p))

\* bincode::deserialize(&data): reads the fields back in the same order; bytes
\* left over after the last field are ignored.
from_bin(d) ==
    IF Len(d) < 2 * U128Bytes THEN BinError
    ELSE LET p1 == 2 * U128Bytes
             p2 == StringEnd(d, p1)
         IN IF p2 = 0 THEN BinError
            ELSE LET p3 == StringEnd(d, p2)
                 IN IF p3 = 0 \/ p3 + F64Bytes > Len(d) THEN BinError
                    ELSE [ok |-> TRUE,
                          val |-> [round_id |-> FixedFromLE(SubSeq(d, 1, U128Bytes)),
                                   answered_in_round |->
                                       FixedFromLE(SubSeq(d, U128Bytes + 1, p1)),
                                   started_at |-> StringAt(d, p1),
                                   updated_at |-> StringAt(d, p2),
                                   price |-> FixedFromLE(SubSeq(d, p3 + 1, p3 + F64Bytes))]]

\* Field values drawn: zero, one and the maximum u128; the empty string, "0",
\* "1700000000" and 2^256 - 1 in decimal; 0.0, 2500.5, -1.0 and the largest f64.
U128Zero == [i \in 1..U128Bytes |-> 0]
U128One == [i \in 1..U128Bytes |-> IF i = U128Bytes THEN 1 ELSE 0]
U128Max == [i \in 1..U128Bytes |-> 255]
U128Values == {U128Zero, U128One, U128Max}

StampMax ==
    <<49, 49, 53, 55, 57, 50, 48, 56, 57, 50, 51, 55, 51, 49, 54, 49, 57,
      53, 52, 50, 51, 53, 55, 48, 57, 56, 53, 48, 48, 56, 54, 56, 55, 57,
      48, 55, 56, 53, 51, 50, 54, 57, 57, 56, 52, 54, 54, 53, 54, 52, 48,
      53, 54, 52, 48, 51, 57, 52, 53, 55, 53, 56, 52, 48, 48, 55, 57, 49,
      51, 49, 50, 57, 54, 51, 57, 57, 51, 53>>
StampValues == {<<>>, <<48>>, <<49, 55, 48, 48, 48, 48, 48, 48, 48, 48>>, StampMax}

PriceValues == {<<0, 0, 0, 0, 0, 0, 0, 0>>, <<64, 163, 137, 0, 0, 0, 0, 0>>,
                <<191, 240, 0, 0, 0, 0, 0, 0>>, <<127, 239, 255, 255, 255, 255, 255, 255>>}

PriceDatas ==
    [round_id : U128Values, answered_in_round : U128Values,
     started_at : StampValues, updated_at : StampValues, price : PriceValues]

\* The records the fetch loop of the store variant delivers.
RecordA ==
    [round_id |-> U128One, answered_in_round |-> U128One,
     started_at |-> <<49, 55, 48, 48, 48, 48, 48, 48, 48, 48>>,
     updated_at |-> <<49, 55, 48, 48, 48, 48, 48, 48, 48, 48>>,
     price |-> <<64, 163, 137, 0, 0, 0, 0, 0>>]

RecordB ==
    [round_id |-> U128Max, answered_in_round |-> U128Zero,
     started_at |-> <<>>, updated_at |-> StampMax,
     price |-> <<191, 240, 0, 0, 0, 0, 0, 0>>]

StoreRecords == {RecordA, RecordB}

\* The clones of the reflector channel's receiver the user holds.
Receivers == {"r1", "r2"}

\* The tickers the store variant is asked for.
Tickers == {"BTC", "ETH"}

\* No store opened, no record in hand, no chain preset asked for.
StoreUnused == tree = <<>> /\ puts = <<>> /\ readOut = <<>>

SerUnused == ser = <<>>

ChainUnused == chain = <<>>

\* Record r in hand, not yet serialized.
SerIdle(r) == ser = [at |-> "record", rec |-> r, bin |-> <<>>, out |-> [ok |-> FALSE]]

\* Chain::new about to be called with a chain id and an optional rpc url.
None == [some |-> FALSE, val |-> <<>>]
Some(u) == [some |-> TRUE, val |-> u]

ChainIdle(id, rpc) ==
    chain = [at |-> "input", chain_id |-> id, rpc_url |-> rpc, variant |-> "none",
             contracts |-> <<>>, asked |-> {}, url |-> <<>>, map |-> <<>>]

\* The store opened and empty, nothing read yet.
StoreIdle ==
    /\ tree = [k \in Tickers |-> [present |-> FALSE, bytes |-> <<>>]]
    /\ puts = [k \in Tickers |-> <<>>]
    /\ readOut = [ticker |-> "none", res |-> [ok |-> FALSE, err |-> "none"]]

\* The store variant and the pure functions untouched.
LibIdle == StoreUnused /\ SerUnused /\ ChainUnused

\* The polling engine after try_new, whatever channel the reflector holds.
EngineIdle ==
    /\ tasks = <<>>
    /\ termination = 0
    /\ shutdown = 0
    /\ open = TRUE
    /\ queue = <<>>
    /\ results = <<>>
    /\ errors = 0
    /\ sendErrors = 0
    /\ callerPc = "ready"
    /\ stopWaiting = 0
    /\ stopReturned = 0
    /\ stopErrored = 0
    /\ fetch_interval_seconds = 1
    /\ ticks = [l \in 1..MaxStarts |-> 0]
    /\ late = 0
    /\ receivers = Receivers
    /\ consumed = 0
    /\ observed = [r \in Receivers |-> <<>>]
    /\ forwarders = <<>>
    /\ calls = <<>>

\* The polling engine after try_new with the documented reflector, a sender of
\* async_std::channel::unbounded().
PollIdle == EngineIdle /\ cap = Unbounded

\* ------------------------------------------------------------------ Init
Init ==
    /\ target \in Targets
    /\ contracts \in FeedLists
    /\ PollIdle
    /\ LibIdle

\* --------------------------------------------------------------- actions

\* Rustlink::start: run fetch_rounds on a clone of the controller.
Start ==
    /\ callerPc = "ready"
    /\ Len(tasks) < MaxStarts
    /\ tasks' = Append(tasks, [pc |-> "spawned", idx |-> 0,
                                configuration |-> ControllerConfiguration])
    /\ callerPc' = IF SpawnMode(target) = "block" THEN "in_start" ELSE "ready"
    /\ UNCHANGED <<target, contracts, termination, shutdown, open, queue,
                   results, errors, sendErrors, stopWaiting, stopReturned, stopErrored>>

\* Rustlink::stop, first await: termination_send.send(()) on the unbounded
\* channel completes at once; the call then waits in shutdown_recv.recv().
StopCall ==
    /\ callerPc = "ready"
    /\ stopWaiting + stopReturned + stopErrored < MaxStops
    /\ termination' = termination + 1
    /\ stopWaiting' = stopWaiting + 1
    /\ UNCHANGED <<target, contracts, tasks, shutdown, open, queue, results,
                   errors, sendErrors, callerPc, stopReturned, stopErrored>>

\* Rustlink::stop, second await: shutdown_recv.recv() resolves.
StopReturn ==
    /\ stopWaiting > 0
    /\ ShutdownRecv # "pending"
    /\ stopWaiting' = stopWaiting - 1
    /\ IF ShutdownRecv = "ok"
       THEN /\ shutdown' = shutdown - 1
            /\ stopReturned' = stopReturned + 1
            /\ UNCHANGED stopErrored
       ELSE /\ stopErrored' = stopErrored + 1
            /\ UNCHANGED <<shutdown, stopReturned>>
    /\ UNCHANGED <<target, contracts, tasks, termination, open, queue,
                   results, errors, sendErrors, callerPc>>

\* fetch_rounds up to the first iteration: an empty feed list leaves the task in
\* `loop { for .. in [] {} }`, which never reaches the select.
TaskEnter(l) ==
    /\ tasks[l].pc = "spawned"
    /\ tasks' = [tasks EXCEPT ![l].pc = EntryPc(Len(TaskContracts(l))),
                              ![l].idx = IF Len(TaskContracts(l)) = 0 THEN 0 ELSE 1]
    /\ UNCHANGED <<target, contracts, termination, shutdown, open, queue,
                   results, errors, sendErrors, callerPc, stopWaiting, stopReturned,
                   stopErrored>>

\* One turn of the empty loop, which has no await: from the head of `loop` the
\* `for` finds no feed and ends, and the `loop` starts over.
Spin(l) ==
    /\ tasks[l].pc \in {"loop", "for_end"}
    /\ tasks' = [tasks EXCEPT ![l].pc = IF tasks[l].pc = "loop" THEN "for_end" ELSE "loop"]
    /\ UNCHANGED <<target, contracts, termination, shutdown, open, queue, results,
                   errors, sendErrors, callerPc, stopWaiting, stopReturned, stopErrored>>

\* select!, shutdown branch: the termination receive resolved; the task sends
\* its acknowledgement and returns.
SelectShutdown(l) ==
    /\ tasks[l].pc = "select"
    /\ termination > 0
    /\ termination' = TerminationAfterRecv(termination)
    /\ shutdown' = shutdown + 1
    /\ tasks' = [tasks EXCEPT ![l].pc = "exited"]
    /\ UNCHANGED <<target, contracts, open, queue, results, errors,
                   sendErrors, callerPc, stopWaiting, stopReturned, stopErrored>>

\* select!, interval branch: the tick arrived; the contract read for the
\* current feed is issued.
SelectTick(l) ==
    /\ tasks[l].pc = "select"
    /\ Len(results) + Cardinality(InFlight) < MaxAttempts
    /\ tasks' = [tasks EXCEPT ![l].pc = "fetching"]
    /\ UNCHANGED <<target, contracts, termination, shutdown, open, queue, results,
                   errors, sendErrors, callerPc, stopWaiting, stopReturned, stopErrored>>

\* fetch_round_data_for_contract resolved with res; the match delivers or logs,
\* and the for loop moves on.
FetchDone(l, res) ==
    /\ tasks[l].pc = "fetching"
    /\ res = "ok" => DeliverResumes
    /\ LET feed == TaskContracts(l)[tasks[l].idx]
           round == RoundOf(feed, Len(results) + 1)
           sent == IF res = "ok" THEN SendResult(open) ELSE "none"
       IN /\ results' = Append(results, [task |-> l, feed |-> feed, res |-> res,
                                         round |-> round])
          /\ queue' = QueueAfter(queue, res, sent, round)
          /\ errors' = ErrorsAfter(errors, res)
          /\ sendErrors' = SendErrorsAfter(sendErrors, sent)
          /\ tasks' = [tasks EXCEPT
                          ![l].pc = PcAfterFetch(res, sent),
                          ![l].idx = AfterFetch(tasks[l].idx, Len(TaskContracts(l)), res)]
    /\ UNCHANGED <<target, contracts, termination, shutdown, open, callerPc,
                   stopWaiting, stopReturned, stopErrored>>

\* The read resolved Ok while the reflector channel is open and full:
\* sender.send(price_data).await suspends the task with the Round in hand.
FetchSuspend(l) ==
    /\ tasks[l].pc = "fetching"
    /\ ~DeliverResumes
    /\ LET feed == TaskContracts(l)[tasks[l].idx]
           round == RoundOf(feed, Len(results) + 1)
       IN results' = Append(results, [task |-> l, feed |-> feed, res |-> "ok",
                                      round |-> round])
    /\ tasks' = [tasks EXCEPT ![l].pc = "sending"]
    /\ UNCHANGED <<target, contracts, termination, shutdown, open, queue, errors,
                   sendErrors, callerPc, stopWaiting, stopReturned, stopErrored>>

\* The Round a suspended task holds: the one of its latest read.
PendingRound(l) ==
    LET i == CHOOSE i \in 1..Len(results) :
                 /\ results[i].task = l
                 /\ \A j \in (i + 1)..Len(results) : results[j].task # l
    IN results[i].round

\* The suspended send completes, Ok into the freed slot or Err on the closed
\* channel; the match arm ends and the for loop moves on.
SendResume(l) ==
    /\ tasks[l].pc = "sending"
    /\ DeliverResumes
    /\ LET sent == SendResult(open)
       IN /\ queue' = QueueAfter(queue, "ok", sent, PendingRound(l))
          /\ sendErrors' = SendErrorsAfter(sendErrors, sent)
          /\ tasks' = [tasks EXCEPT
                          ![l].pc = PcAfterFetch("ok", sent),
                          ![l].idx = AfterFetch(tasks[l].idx, Len(TaskContracts(l)), "ok")]
    /\ UNCHANGED <<target, contracts, termination, shutdown, open, results, errors,
                   callerPc, stopWaiting, stopReturned, stopErrored>>

\* The user drops every receiver of the reflector channel: the channel closes.
CloseSink ==
    /\ open
    /\ open' = FALSE
    /\ UNCHANGED <<target, contracts, tasks, termination, shutdown, queue,
                   results, errors, sendErrors, callerPc, stopWaiting, stopReturned,
                   stopErrored>>

\* The outcomes of one contract read.
Outcomes == {"ok", "err"}

\* History: task l consumed one more interval tick.
CountTick(l) ==
    /\ ticks' = [ticks EXCEPT ![l] = @ + 1]
    /\ UNCHANGED <<fetch_interval_seconds, cap, late, subscriberVars, libVars, jsVars>>

\* The user drops every receiver: CloseSink's effect on the subscribers.
DropAll ==
    /\ receivers' = {}
    /\ UNCHANGED <<fetch_interval_seconds, cap, ticks, late, consumed, observed, libVars, jsVars>>

\* Spec lets stop() be called SpecStops times.
SpecStops == 1

Next ==
    \/ Start /\ UNCHANGED others
    \/ StopCall /\ stopWaiting + stopReturned + stopErrored < SpecStops /\ UNCHANGED others
    \/ StopReturn /\ UNCHANGED others
    \/ CloseSink /\ DropAll
    \/ \E l \in 1..Len(tasks) : TaskEnter(l) /\ UNCHANGED others
    \/ \E l \in 1..Len(tasks) : Spin(l) /\ UNCHANGED others
    \/ \E l \in 1..Len(tasks) : SelectShutdown(l) /\ UNCHANGED others
    \/ \E l \in 1..Len(tasks) : SelectTick(l) /\ CountTick(l)
    \/ \E l \in 1..Len(tasks) : \E res \in Outcomes : FetchDone(l, res) /\ UNCHANGED others

Spec == Init /\ [][Next]_vars

\* ------------------------------------------ abnormal termination of a task

\* The contract client panics inside the read (ChainlinkContract::new unwraps
\* the parse of the contract address): the task ends there, sends no
\* acknowledgement and drops its clone of the controller.
LoopAbort(l) ==
    /\ tasks[l].pc = "fetching"
    /\ tasks' = [tasks EXCEPT ![l].pc = "aborted"]
    /\ UNCHANGED <<target, contracts, termination, shutdown, open, queue, results,
                   errors, sendErrors, callerPc, stopWaiting, stopReturned, stopErrored>>

AbortNext ==
    \/ Next
    \/ \E l \in 1..Len(tasks) : LoopAbort(l) /\ UNCHANGED others

\* The program with a contract client that may panic.
AbortSpec == Init /\ [][AbortNext]_vars

\* ------------------------------------------------ one start(), then one stop()

\* The controller used as documented: start() once, then stop() once.
LiveNext ==
    \/ Len(tasks) = 0 /\ Start /\ UNCHANGED others
    \/ Len(tasks) = 1 /\ stopWaiting + stopReturned + stopErrored = 0 /\ StopCall
          /\ UNCHANGED others
    \/ StopReturn /\ UNCHANGED others
    \/ CloseSink /\ DropAll
    \/ \E l \in 1..Len(tasks) : TaskEnter(l) /\ UNCHANGED others
    \/ \E l \in 1..Len(tasks) : Spin(l) /\ UNCHANGED others
    \/ \E l \in 1..Len(tasks) : SelectShutdown(l) /\ UNCHANGED others
    \/ \E l \in 1..Len(tasks) : SelectTick(l) /\ CountTick(l)
    \/ \E l \in 1..Len(tasks) : \E res \in Outcomes : FetchDone(l, res) /\ UNCHANGED others

\* The task is scheduled fairly, every contract read resolves, a select! that
\* keeps finding the termination notice ready eventually takes that branch, and
\* the caller of stop() is resumed when its receive can resolve.
Fairness ==
    /\ WF_pollVars(Len(tasks) >= 1 /\ TaskEnter(1))
    /\ WF_pollVars(Len(tasks) >= 1 /\ \E res \in Outcomes : FetchDone(1, res))
    /\ SF_pollVars(Len(tasks) >= 1 /\ SelectShutdown(1))
    /\ WF_pollVars(Len(tasks) >= 1 /\ Spin(1))
    /\ WF_pollVars(StopReturn)

LiveSpec == Init /\ [][LiveNext]_vars /\ Fairness

\* The interval stream keeps ticking: a task waiting in select! gets its tick.
TickFairness == WF_pollVars(Len(tasks) >= 1 /\ SelectTick(1))

TickSpec == LiveSpec /\ TickFairness

\* ------------------------------------------------------- derived histories

\* The reads task l has resolved, in order.
TaskResults(l) == SelectSeq(results, LAMBDA e : e.task = l)

\* The feeds of the reads task l has issued, in order: those resolved and the
\* one in flight.
Attempts(l) ==
    LET r == TaskResults(l)
        done == [k \in 1..Len(r) |-> r[k].feed]
    IN IF tasks[l].pc = "fetching"
       THEN Append(done, TaskContracts(l)[tasks[l].idx])
       ELSE done

\* Registry position after position p in a list of n feeds, cyclically.
Succ(p, n) == (p % n) + 1

\* Registry position of a feed (identifiers are distinct).
PosOf(feed) == CHOOSE p \in 1..Len(contracts) : contracts[p] = feed

\* The step resolves a contract read of task l.
Resolves(l) == tasks[l].pc = "fetching" /\ tasks'[l].pc # "fetching"

\* ------------------------------------------------------------------ claims

\* C1: once start() has been called, a call to stop() eventually returns, for
\* every feed list (read under LiveSpec: the reads resolve, the task is
\* scheduled fairly).
C1_StopEventuallyReturns == (stopWaiting > 0) ~> (stopReturned + stopErrored > 0)

\* The same with a non-empty feed list.
C1_NonEmptyStopReturns ==
    (stopWaiting > 0 /\ Len(contracts) > 0) ~> (stopReturned + stopErrored > 0)

\* C2: after a stop() has returned, no Round is delivered to the sink any more
\* and no contract read is started any more.
C2_Quiescence ==
    [][stopReturned > 0 =>
          /\ queue' = queue
          /\ \A l \in 1..Len(tasks) :
                tasks'[l].pc = "fetching" => tasks[l].pc = "fetching"]_vars

\* C2 read for a controller started once.
C2_QuiescenceSingleStart ==
    [][(stopReturned > 0 /\ Len(tasks') <= 1) =>
          /\ queue' = queue
          /\ \A l \in 1..Len(tasks) :
                tasks'[l].pc = "fetching" => tasks[l].pc = "fetching"]_vars

\* C3: the k-th contract read a task issues (k from 1) targets the feed at
\* registry position ((k - 1) mod N) + 1: registry order, repeated cyclically.
C3_FetchOrder ==
    \A l \in 1..Len(tasks) :
        \A k \in 1..Len(Attempts(l)) :
            Attempts(l)[k] = contracts[((k - 1) % Len(contracts)) + 1]

\* C3 witness: with two feeds a task has gone round the registry and started
\* the next cycle.
C3_Witness ==
    /\ Len(contracts) = 2
    /\ \E l \in 1..Len(tasks) : Attempts(l) = <<contracts[1], contracts[2], contracts[1]>>

\* C4: a failed contract read is only logged; the task stays in the loop, at
\* the select of the following feed, and the read it issues next is for the
\* feed after the failed one (the first feed again after the last), never a
\* retry of the failed feed and never a restart of the cycle.
C4_FailedReadStep ==
    \A l \in 1..Len(tasks) :
        (Resolves(l) /\ Len(results') = Len(results) + 1
              /\ results'[Len(results')].res = "err") =>
            /\ tasks'[l].pc = "select"
            /\ tasks'[l].idx = Succ(tasks[l].idx, Len(contracts))
            /\ errors' = errors + 1
            /\ queue' = queue
            /\ sendErrors' = sendErrors

C4_NextAfterFailure ==
    \A l \in 1..Len(tasks) :
        \A k \in 1..Len(TaskResults(l)) :
            (TaskResults(l)[k].res = "err" /\ k < Len(Attempts(l))) =>
                Attempts(l)[k + 1] =
                    contracts[Succ(PosOf(TaskResults(l)[k].feed), Len(contracts))]

C4_FailureContinues == [][C4_FailedReadStep]_vars /\ []C4_NextAfterFailure

\* C4 witness: the read for the first of two feeds failed and the same task
\* has issued the read for the second feed.
C4_Witness ==
    /\ Len(contracts) = 2
    /\ \E l \in 1..Len(tasks) :
          /\ Len(TaskResults(l)) = 1
          /\ TaskResults(l)[1].res = "err"
          /\ TaskResults(l)[1].feed = contracts[1]
          /\ Attempts(l) = <<contracts[1], contracts[2]>>
          /\ errors = 1

\* The Rounds of the successful reads, in the order the reads resolved.
Successes == SelectSeq(results, LAMBDA e : e.res = "ok")

Failures == SelectSeq(results, LAMBDA e : e.res = "err")

\* C5: while the sink is open, the Rounds delivered are exactly the results of
\* the successful reads, in order, each once; the failure log records are as
\* many as the failed reads.
C5_DeliveredAreSuccesses ==
    /\ errors = Len(Failures)
    /\ open => /\ queue = [k \in 1..Len(Successes) |-> Successes[k].round]
               /\ sendErrors = 0

\* C5 witness: one feed whose reads succeed, fail, succeed.
C5_Witness ==
    /\ open
    /\ Len(contracts) = 1
    /\ Len(tasks) = 1
    /\ Len(results) = 3
    /\ results[1].res = "ok" /\ results[2].res = "err" /\ results[3].res = "ok"
    /\ Len(queue) = 2 /\ errors = 1

\* C6: at most one fetch_rounds task is running at any time.
C6_AtMostOneLoop == Cardinality(RunningTasks) <= 1

\* C7: when every task has ended and one of them ended abnormally, without an
\* acknowledgement left in the channel, a waiting stop() can return: its
\* receive observes the channel as closed.
C7_StopErrorsAfterAbort ==
    (/\ stopWaiting > 0
     /\ shutdown = 0
     /\ RunningTasks = {}
     /\ \E l \in 1..Len(tasks) : tasks[l].pc = "aborted") => ShutdownRecv = "closed"

\* C8: once the loop has been stopped (a stop() returned and no task runs), no
\* task runs on this controller again.
C8_OneShot ==
    [][(stopReturned > 0 /\ RunningTasks = {}) => RunningTasks' = {}]_vars

\* C9: on both builds start() hands the task to the executor and returns: once
\* start() has been called its caller is free, whatever the task is doing.
C9_StartReturns == (Len(tasks) > 0) => callerPc = "ready"

\* C9 witness: on wasm32, while the started task has a read in flight, a Round
\* is in the queue and the caller has called stop().
C9_Witness ==
    /\ target = "wasm32"
    /\ Len(tasks) = 1
    /\ tasks[1].pc = "fetching"
    /\ Len(queue) > 0
    /\ stopWaiting = 1

\* C10: a send into the sink fails only when the channel is closed; the failed
\* send is logged once, the Round is dropped, and the task stays in the loop at
\* the select of the following feed.
C10_SendFailureStep ==
    \A l \in 1..Len(tasks) :
        Resolves(l) =>
            /\ sendErrors' # sendErrors => ~open
            /\ (results'[Len(results')].res = "ok" /\ ~open) =>
                  /\ sendErrors' = sendErrors + 1
                  /\ queue' = queue
                  /\ errors' = errors
                  /\ tasks'[l].pc = "select"
                  /\ tasks'[l].idx = Succ(tasks[l].idx, Len(contracts))

C10_SendFailureContinues == [][C10_SendFailureStep]_vars

\* C10 witness: after a failed send the task issued the read for the next
\* feed, then took a later termination notice, and stop() returned.
C10_Witness ==
    /\ Len(contracts) = 2
    /\ Len(tasks) = 1
    /\ tasks[1].pc = "exited"
    /\ sendErrors = 1
    /\ Len(results) = 2
    /\ results[1].res = "ok" /\ results[1].feed = contracts[1]
    /\ results[2].feed = contracts[2]
    /\ queue = <<>>
    /\ stopReturned = 1

\* C11: after start() and with no stop(), a read is issued once the first tick
\* has arrived and resolves; as long as the sink is open the first Round
\* delivered is exactly the Round the first successful read returned, for the
\* feed that read was for (the only feed, when there is one feed).
C11_ReadResolves ==
    (Len(tasks) = 1 /\ Len(contracts) > 0)
        ~> (Len(results) > 0 \/ stopWaiting + stopReturned + stopErrored > 0)

C11_FirstRound ==
    (open /\ Successes # <<>>) =>
        /\ queue # <<>>
        /\ queue[1] = Successes[1].round
        /\ queue[1].identifier = Successes[1].feed
        /\ Len(contracts) = 1 => queue[1].identifier = contracts[1]

C11_FirstDelivery == C11_ReadResolves /\ []C11_FirstRound

C11_Witness ==
    /\ Len(contracts) = 1
    /\ stopWaiting + stopReturned + stopErrored = 0
    /\ open
    /\ Len(results) = 1 /\ results[1].res = "ok"
    /\ queue = <<results[1].round>>

\* ------------------------------------------------------- the store variant

MaxPuts == 2

\* Values in the tree that no to_bin of this version produced: a value cut
\* short, and one whose text is not UTF-8.
ForeignBytes ==
    {SubSeq(to_bin(RecordA), 1, 50), to_bin([RecordA EXCEPT !.started_at = <<255>>])}

\* db.get(key): the value under the key.
TreeGetFirst(tr, key) == tr["BTC"]
TreeGet(tr, key) == tr[key]

\* get_from_tree: `db.get(key)?` turns an engine failure into SledError
\* (#[from] sled::Error), `.ok_or(DatabaseError::NotFound)?` an absent key into
\* NotFound.
get_from_tree(tr, key, engine) ==
    IF engine = "fails" THEN [ok |-> FALSE, err |-> "SledError"]
    ELSE IF ~TreeGet(tr, key).present THEN [ok |-> FALSE, err |-> "NotFound"]
    ELSE [ok |-> TRUE, val |-> TreeGet(tr, key).bytes]

\* The map_err on from_bin's result.
MapBinErrorNotFound == "NotFound"
MapBinError == "Deserialize"

\* get_price: get_from_tree(..)?, then PriceData::from_bin(..).map_err(..).
get_price(tr, ticker, engine) ==
    LET binary_data == get_from_tree(tr, ticker, engine)
    IN IF ~binary_data.ok THEN binary_data
       ELSE IF from_bin(binary_data.val).ok THEN from_bin(binary_data.val)
       ELSE [ok |-> FALSE, err |-> MapBinError]

EngineOutcomes == {"ok", "fails"}

\* A state of the library in which only the store is used.
StoreInit ==
    /\ target = "native" /\ contracts = <<>> /\ PollIdle
    /\ StoreIdle /\ SerUnused /\ ChainUnused

StoreFrame ==
    UNCHANGED <<pollVars, fetch_interval_seconds, cap, ticks, late, subscriberVars, ser, chain, jsVars>>

\* The fetch loop of the store variant delivers a record: the tree maps the
\* ticker to the record's binary form, replacing what was there.
Put(k, r) ==
    /\ Len(puts[k]) < MaxPuts
    /\ tree' = [tree EXCEPT ![k] = [present |-> TRUE, bytes |-> to_bin(r)]]
    /\ puts' = [puts EXCEPT ![k] = Append(@, [kind |-> "record", val |-> r])]
    /\ UNCHANGED readOut
    /\ StoreFrame

\* Something else wrote the value under the ticker (another version of the
\* record layout, a damaged file).
PutForeign(k, b) ==
    /\ Len(puts[k]) < MaxPuts
    /\ tree' = [tree EXCEPT ![k] = [present |-> TRUE, bytes |-> b]]
    /\ puts' = [puts EXCEPT ![k] = Append(@, [kind |-> "foreign", val |-> b])]
    /\ UNCHANGED readOut
    /\ StoreFrame

\* A call of get_price(ticker).
GetPrice(k, engine) ==
    /\ readOut' = [ticker |-> k, res |-> get_price(tree, k, engine)]
    /\ UNCHANGED <<tree, puts>>
    /\ StoreFrame

StoreNext ==
    \/ \E k \in Tickers : \E r \in StoreRecords : Put(k, r)
    \/ \E k \in Tickers : \E b \in ForeignBytes : PutForeign(k, b)
    \/ \E k \in Tickers : \E engine \in EngineOutcomes : GetPrice(k, engine)

StoreSpec == StoreInit /\ [][StoreNext]_vars

Last(q) == q[Len(q)]

\* C12: a ticker never written reads as NotFound; a ticker whose last write was
\* the delivery of a record reads as that record, whatever was written to it
\* before and whatever was written to other tickers.
C12_ReadAfterWrite ==
    \A k \in Tickers :
        /\ puts[k] = <<>> => get_price(tree, k, "ok") = [ok |-> FALSE, err |-> "NotFound"]
        /\ (puts[k] # <<>> /\ Last(puts[k]).kind = "record") =>
               get_price(tree, k, "ok") = [ok |-> TRUE, val |-> Last(puts[k]).val]

C12_Witness ==
    /\ puts["BTC"] = <<[kind |-> "record", val |-> RecordA], [kind |-> "record", val |-> RecordB]>>
    /\ puts["ETH"] = <<[kind |-> "record", val |-> RecordA]>>
    /\ readOut = [ticker |-> "BTC", res |-> [ok |-> TRUE, val |-> RecordB]]

\* C13: a read fails with SledError exactly when the engine fails, with
\* NotFound exactly when the engine works and the ticker is absent, with
\* Deserialize exactly when the bytes present do not deserialize, and succeeds
\* otherwise; a call of get_price leaves the tree as it was.
C13_Classified ==
    \A k \in Tickers :
        /\ get_price(tree, k, "fails") = [ok |-> FALSE, err |-> "SledError"]
        /\ LET res == get_price(tree, k, "ok")
           IN IF ~tree[k].present THEN res = [ok |-> FALSE, err |-> "NotFound"]
              ELSE IF from_bin(tree[k].bytes).ok THEN res.ok
              ELSE res = [ok |-> FALSE, err |-> "Deserialize"]

C13_ReadKeepsStore == readOut' # readOut => tree' = tree

C13_ReadClassifies == []C13_Classified /\ [][C13_ReadKeepsStore]_vars

C13_Witness ==
    /\ puts["BTC"] # <<>> /\ Last(puts["BTC"]).kind = "foreign"
    /\ readOut = [ticker |-> "BTC", res |-> [ok |-> FALSE, err |-> "Deserialize"]]

\* ------------------------------------------- subscribers of the reflector

\* receiver.recv() on clone r of the receiver: the channel hands its oldest
\* queued Round to this receiver and to no other.
Recv(r) ==
    /\ r \in receivers
    /\ consumed < Len(queue)
    /\ observed' = [observed EXCEPT ![r] = Append(@, queue[consumed + 1])]
    /\ consumed' = consumed + 1
    /\ UNCHANGED <<pollVars, fetch_interval_seconds, cap, ticks, late, receivers, libVars, jsVars>>

\* The user drops clone r of the receiver; the channel is closed when the last
\* receiver is gone.
DropReceiver(r) ==
    /\ r \in receivers
    /\ receivers' = receivers \ {r}
    /\ open' = (receivers' # {})
    /\ UNCHANGED <<target, contracts, tasks, termination, shutdown, queue, results,
                   errors, sendErrors, callerPc, stopWaiting, stopReturned,
                   stopErrored>>
    /\ UNCHANGED <<fetch_interval_seconds, cap, ticks, late, consumed, observed, libVars, jsVars>>

\* One loop delivering to the receivers' clones, never stopped.
FanoutNext ==
    \/ Len(tasks) = 0 /\ Len(contracts) > 0 /\ Start /\ UNCHANGED others
    \/ \E l \in 1..Len(tasks) : TaskEnter(l) /\ UNCHANGED others
    \/ \E l \in 1..Len(tasks) : SelectTick(l) /\ CountTick(l)
    \/ \E l \in 1..Len(tasks) : \E res \in Outcomes : FetchDone(l, res) /\ UNCHANGED others
    \/ \E r \in Receivers : Recv(r)
    \/ \E r \in Receivers : DropReceiver(r)

FanoutSpec == Init /\ [][FanoutNext]_vars

SerInit ==
    /\ target = "native" /\ contracts = <<>> /\ PollIdle
    /\ StoreUnused /\ ChainUnused
    /\ \E r \in PriceDatas : SerIdle(r)

SerFrame ==
    UNCHANGED <<pollVars, fetch_interval_seconds, cap, ticks, late, subscriberVars,
                tree, puts, readOut, chain, jsVars>>

\* record.to_bin()
ToBin ==
    /\ ser.at = "record"
    /\ ser' = [ser EXCEPT !.at = "bytes", !.bin = to_bin(ser.rec)]
    /\ SerFrame

\* PriceData::from_bin(bytes)
FromBin ==
    /\ ser.at = "bytes"
    /\ ser' = [ser EXCEPT !.at = "read", !.out = from_bin(ser.bin)]
    /\ SerFrame

SerNext == ToBin \/ FromBin

SerSpec == SerInit /\ [][SerNext]_vars

\* The length of the binary form: two u128, two length-prefixed Strings, an f64.
BinLen(r) ==
    2 * U128Bytes + 2 * U64Bytes + Len(r.started_at) + Len(r.updated_at) + F64Bytes

\* C15: from_bin(to_bin(r)) succeeds and gives back r, field for field, for
\* every record drawn: zero, one and maximum u128 ids, empty through 78-digit
\* timestamps, zero, negative and largest prices.
C15_RoundTrip ==
    /\ ser.at # "record" => Len(ser.bin) = BinLen(ser.rec)
    /\ ser.at = "read" =>
           /\ ser.out.ok
           /\ ser.out.val.round_id = ser.rec.round_id
           /\ ser.out.val.answered_in_round = ser.rec.answered_in_round
           /\ ser.out.val.started_at = ser.rec.started_at
           /\ ser.out.val.updated_at = ser.rec.updated_at
           /\ ser.out.val.price = ser.rec.price

C15_Witness ==
    /\ ser.at = "read"
    /\ ser.rec.round_id = U128One
    /\ ser.rec.answered_in_round = U128Max
    /\ ser.rec.started_at = StampMax
    /\ ser.rec.updated_at = <<>>
    /\ ser.out.ok

\* ------------------------------------------------------ the chain presets

\* Strings are written as their bytes.
Https == <<104, 116, 116, 112, 115, 58, 47, 47>>

StartsWith(str, prefix) ==
    Len(str) >= Len(prefix) /\ SubSeq(str, 1, Len(prefix)) = prefix

\* "https://1rpc.io/eth" and "https://1rpc.io/arb"
EthereumFallback ==
    <<104, 116, 116, 112, 115, 58, 47, 47, 49, 114, 112, 99, 46, 105, 111, 47, 101, 116, 104>>
ArbitrumFallback ==
    <<104, 116, 116, 112, 115, 58, 47, 47, 49, 114, 112, 99, 46, 105, 111, 47, 97, 114, 98>>

\* ethereum_contracts() and arbitrum_contracts().
ethereum_contracts ==
    [t \in {"BTC", "ETH"} |->
        IF t = "BTC" THEN "0xabcd1234efgh5678ijkl9012mnop3456qrst7890"
        ELSE "0x1234abcd5678efgh9012ijkl3456mnop7890qrst"]

arbitrum_contracts ==
    [t \in {"BTC", "ETH"} |->
        IF t = "BTC" THEN "0xabcd1234efgh5678ijkl9012mnop3456qrst7890"
        ELSE "0x1234abcd5678efgh9012ijkl3456mnop7890qrst"]

\* The chain ids drawn: the two presets and one id that is none of them.
ChainIds == {1, 42161, 137}

\* The custom rpc urls drawn.
CustomUrls ==
    {<<104, 116, 116, 112, 115, 58, 47, 47, 49, 114, 112, 99, 46, 105, 111>>,
     <<104, 116, 116, 112, 115, 58, 47, 47, 49, 114, 112, 99, 46, 105, 111, 47, 101, 116, 104>>,
     <<104, 116, 116, 112, 115, 58, 47, 47, 49, 114, 112, 99, 46, 105, 111, 47, 97, 114, 98>>,
     <<104, 116, 116, 112, 58, 47, 47, 108, 111, 99, 97, 108, 104, 111, 115, 116, 58, 56, 53, 52, 53>>,
     <<104, 116, 116, 112, 115, 58, 47, 47, 101, 116, 104, 46, 108, 108, 97, 109, 97, 114, 112, 99, 46, 99, 111, 109>>,
     <<119, 115, 115, 58, 47, 47, 97, 114, 98, 49, 46, 101, 120, 97, 109, 112, 108, 101, 47, 119, 115>>,
     <<>>,
     <<104, 116, 116, 112, 115, 58, 47, 47>>,
     <<102, 116, 112, 58, 47, 47, 120>>}

\* Chain::new, first match: the contract map for the chain id.
ContractsFor(id) ==
    IF id = 1 THEN ethereum_contracts
    ELSE IF id = 42161 THEN arbitrum_contracts
    ELSE <<>>

\* Chain::new, second match: the variant for the chain id; any other id runs
\* into unreachable!().
VariantFor(id) ==
    IF id = 1 THEN "Ethereum" ELSE IF id = 42161 THEN "ArbitrumOne" ELSE "unreachable"

\* The fallback url of a variant in rpc_url().
FallbackOf(variant) == IF variant = "Ethereum" THEN EthereumFallback ELSE ArbitrumFallback

\* rpc_url(): Some(url) => url, None => the variant's fallback.
UrlOrFallbackOnly(variant, rpc) == FallbackOf(variant)
UrlOrFallback(variant, rpc) == IF rpc.some THEN rpc.val ELSE FallbackOf(variant)

ChainInit ==
    /\ target = "native" /\ contracts = <<>> /\ PollIdle
    /\ StoreUnused /\ SerUnused
    /\ \E id \in ChainIds : \E rpc \in {None} \cup {Some(u) : u \in CustomUrls} :
           ChainIdle(id, rpc)

ChainFrame ==
    UNCHANGED <<pollVars, fetch_interval_seconds, cap, ticks, late, subscriberVars,
                tree, puts, readOut, ser, jsVars>>

\* Chain::new(chain_id, rpc_url)
ChainNew ==
    /\ chain.at = "input"
    /\ chain' = IF VariantFor(chain.chain_id) = "unreachable"
                THEN [chain EXCEPT !.at = "panicked"]
                ELSE [chain EXCEPT !.at = "built",
                                   !.variant = VariantFor(chain.chain_id),
                                   !.contracts = ContractsFor(chain.chain_id)]
    /\ ChainFrame

\* chain.rpc_url()
RpcUrl ==
    /\ chain.at = "built"
    /\ "rpc_url" \notin chain.asked
    /\ chain' = [chain EXCEPT !.asked = @ \cup {"rpc_url"},
                              !.url = UrlOrFallback(chain.variant, chain.rpc_url)]
    /\ ChainFrame

\* chain.contracts()
Contracts ==
    /\ chain.at = "built"
    /\ "contracts" \notin chain.asked
    /\ chain' = [chain EXCEPT !.asked = @ \cup {"contracts"}, !.map = chain.contracts]
    /\ ChainFrame

ChainNext == ChainNew \/ RpcUrl \/ Contracts

ChainSpec == ChainInit /\ [][ChainNext]_vars

\* C16: for chain ids 1 and 42161, rpc_url() of a chain built without a url is
\* the built-in fallback, which starts with https://, and rpc_url() of a chain
\* built with Some(u) is u; the variant and the contract map are those of the
\* chain id, whatever the url.
C16_Presets ==
    (chain.at = "built" /\ chain.chain_id \in {1, 42161}) =>
        /\ chain.variant = (IF chain.chain_id = 1 THEN "Ethereum" ELSE "ArbitrumOne")
        /\ chain.contracts = (IF chain.chain_id = 1 THEN ethereum_contracts
                              ELSE arbitrum_contracts)
        /\ "contracts" \in chain.asked => chain.map = chain.contracts
        /\ "rpc_url" \in chain.asked =>
               IF chain.rpc_url.some
               THEN chain.url = chain.rpc_url.val
               ELSE /\ StartsWith(chain.url, Https)
                    /\ chain.url = (IF chain.chain_id = 1 THEN EthereumFallback
                                    ELSE ArbitrumFallback)

C16_Witness ==
    /\ chain.at = "built"
    /\ chain.chain_id = 42161
    /\ chain.rpc_url.some /\ chain.rpc_url.val # ArbitrumFallback
    /\ chain.asked = {"rpc_url", "contracts"}
    /\ chain.url = chain.rpc_url.val

\* -------------------------------------------------- exit, pacing, copies

\* The tasks that returned from fetch_rounds.
Exited == {l \in 1..Len(tasks) : tasks[l].pc = "exited"}

\* C17: a task leaves the loop only from the select!, by taking a queued
\* termination notice, and in that same step sends one acknowledgement; a read
\* that resolves, with an error, with a failed delivery or at the end of a
\* cycle, leaves the task in the loop; the acknowledgements sent are as many as
\* the tasks that exited.
C17_ExitStep ==
    \A l \in 1..Len(tasks) :
        (tasks[l].pc # "exited" /\ tasks'[l].pc = "exited") =>
            /\ tasks[l].pc = "select"
            /\ termination > 0
            /\ termination' = termination - 1
            /\ shutdown' = shutdown + 1

C17_ReadStep ==
    \A l \in 1..Len(tasks) : Resolves(l) => tasks'[l].pc \in RunningPcs

C17_OneAck == Cardinality(Exited) = shutdown + stopReturned

C17_ExitOnlyByCancellation ==
    [][C17_ExitStep /\ C17_ReadStep]_vars /\ []C17_OneAck

C17_Witness ==
    /\ Len(tasks) = 1 /\ tasks[1].pc = "exited"
    /\ Len(contracts) = 1
    /\ Len(results) = 3
    /\ errors > 0 /\ sendErrors > 0
    /\ shutdown + stopReturned = 1

\* History: task l consumed one more interval tick, and issued its read while
\* a termination notice was queued or not.
CountLateTick(l) ==
    /\ ticks' = [ticks EXCEPT ![l] = @ + 1]
    /\ late' = IF termination > 0 THEN late + 1 ELSE late
    /\ UNCHANGED <<fetch_interval_seconds, cap, subscriberVars, libVars, jsVars>>

\* One start() and then one stop(), with the ticks counted.
PaceNext ==
    \/ Len(tasks) = 0 /\ Start /\ UNCHANGED others
    \/ Len(tasks) = 1 /\ stopWaiting + stopReturned + stopErrored = 0 /\ StopCall
          /\ UNCHANGED others
    \/ StopReturn /\ UNCHANGED others
    \/ CloseSink /\ DropAll
    \/ \E l \in 1..Len(tasks) : TaskEnter(l) /\ UNCHANGED others
    \/ \E l \in 1..Len(tasks) : Spin(l) /\ UNCHANGED others
    \/ \E l \in 1..Len(tasks) : SelectShutdown(l) /\ UNCHANGED others
    \/ \E l \in 1..Len(tasks) : SelectTick(l) /\ CountLateTick(l)
    \/ \E l \in 1..Len(tasks) : \E res \in Outcomes : FetchDone(l, res) /\ UNCHANGED others

PaceSpec == Init /\ [][PaceNext]_vars

\* C18: once stop() has sent its termination notice, the loop finishes the
\* read in flight, if any, and consumes at most one more interval tick before
\* it acknowledges and exits.
C18_StopWithinOneTick == late <= 1

\* The part of C18 that holds: the read in flight when the notice arrives
\* resolves as any other read does, and its Round is delivered.
C18_ReadNotInterrupted ==
    [][\A l \in 1..Len(tasks) :
          (termination > 0 /\ Resolves(l)) =>
              /\ tasks'[l].pc = "select"
              /\ Len(results') = Len(results) + 1
              /\ (open /\ Last(results').res = "ok") =>
                     queue' = Append(queue, Last(results').round)]_vars

\* C19: every read a task issues costs it one interval tick, whether the read
\* before succeeded or failed: the ticks a task consumed are as many as the
\* reads it issued, so a cycle over N feeds consumes N ticks.
C19_TickPerAttempt ==
    \A l \in 1..Len(tasks) : ticks[l] = Len(Attempts(l))

C19_Witness ==
    /\ Len(tasks) = 1 /\ Len(contracts) = 2
    /\ ticks[1] = 3 /\ Len(Attempts(1)) = 3
    /\ Failures # <<>> /\ Successes # <<>>

\* The feed lists and intervals the user can give the controller's pub
\* configuration field: the feeds in any order, without repetition.
ConfigLists ==
    {f \in UNION {[1..n -> 1..MaxFeeds] : n \in 0..MaxFeeds} :
        \A i, j \in 1..Len(f) : f[i] = f[j] => i = j}

Intervals == {1, 10}

\* The owner of the controller assigns rustlink.configuration.contracts and
\* rustlink.configuration.fetch_interval_seconds.
Reconfigure(list, secs) ==
    /\ <<list, secs>> # <<contracts, fetch_interval_seconds>>
    /\ contracts' = list
    /\ fetch_interval_seconds' = secs
    /\ UNCHANGED <<target, tasks, termination, shutdown, open, queue, results, errors,
                   sendErrors, callerPc, stopWaiting, stopReturned, stopErrored>>
    /\ UNCHANGED <<cap, ticks, late, subscriberVars, libVars, jsVars>>

\* One start(), and the controller's configuration assigned at any time.
ConfigNext ==
    \/ Len(tasks) = 0 /\ Start /\ UNCHANGED others
    \/ \E l \in 1..Len(tasks) : TaskEnter(l) /\ UNCHANGED others
    \/ \E l \in 1..Len(tasks) : Spin(l) /\ UNCHANGED others
    \/ \E l \in 1..Len(tasks) : SelectTick(l) /\ CountTick(l)
    \/ \E l \in 1..Len(tasks) : \E res \in Outcomes : FetchDone(l, res) /\ UNCHANGED others
    \/ \E list \in ConfigLists : \E secs \in Intervals : Reconfigure(list, secs)

ConfigSpec == Init /\ [][ConfigNext]_vars

\* C20: the Configuration a task works with is the one start() copied: no
\* step, of the loop or on the controller, changes it, and every read the task
\* issues is for the feed its own list has at the position the cyclic order
\* gives, whatever the controller's list has become.
C20_CopyKept ==
    \A l \in 1..Len(tasks) : tasks'[l].configuration = tasks[l].configuration

C20_ReadsOwnList ==
    \A l \in 1..Len(tasks) :
        LET own == tasks[l].configuration.contracts
        IN \A k \in 1..Len(TaskResults(l)) :
               /\ Len(own) > 0
               /\ TaskResults(l)[k].feed = own[((k - 1) % Len(own)) + 1]

C20_FixedConfiguration == [][C20_CopyKept]_vars /\ []C20_ReadsOwnList

C20_Witness ==
    /\ Len(tasks) = 1
    /\ tasks[1].configuration.contracts = <<1, 2>>
    /\ contracts = <<2>>
    /\ fetch_interval_seconds # tasks[1].configuration.fetch_interval_seconds
    /\ Len(TaskResults(1)) = 3
    /\ results[1].feed = 1 /\ results[2].feed = 2 /\ results[3].feed = 1

\* ------------------------------------------------------------ RustlinkJS

\* What callback.call1 returns: Ok, or Err when the JS function threw.
CallOutcomes == {"ok", "threw"}

\* The forwarding task after `let _ = callback.call1(..)`: the result is
\* dropped and the while loop goes on to the next recv.
ForwarderAfterStop(res) == IF res = "threw" THEN "stopped" ELSE "running"
ForwarderAfter(res) == "running"

\* RustlinkJS::start: start the loop, then spawn_local the forwarding task on a
\* clone of the receiver.
JsStart ==
    /\ Start
    /\ forwarders' = Append(forwarders, "running")
    /\ UNCHANGED <<fetch_interval_seconds, cap, ticks, late, subscriberVars, libVars, calls>>

\* One turn of `while let Ok(round) = receiver.recv().await`: forwarding task f
\* receives the oldest queued Round and calls the callback with it; there is
\* no await between the two.
Forward(f, res) ==
    /\ forwarders[f] = "running"
    /\ consumed < Len(queue)
    /\ consumed' = consumed + 1
    /\ calls' = Append(calls, [round |-> queue[consumed + 1], res |-> res, by |-> f])
    /\ forwarders' = [forwarders EXCEPT ![f] = ForwarderAfter(res)]
    /\ UNCHANGED <<pollVars, fetch_interval_seconds, cap, ticks, late, receivers, observed,
                   libVars>>

\* One RustlinkJS, started once and stopped once.
JsNext ==
    \/ Len(tasks) = 0 /\ JsStart
    \/ Len(tasks) = 1 /\ stopWaiting + stopReturned + stopErrored = 0 /\ StopCall
          /\ UNCHANGED others
    \/ StopReturn /\ UNCHANGED others
    \/ \E l \in 1..Len(tasks) : TaskEnter(l) /\ UNCHANGED others
    \/ \E l \in 1..Len(tasks) : Spin(l) /\ UNCHANGED others
    \/ \E l \in 1..Len(tasks) : SelectShutdown(l) /\ UNCHANGED others
    \/ \E l \in 1..Len(tasks) : SelectTick(l) /\ CountTick(l)
    \/ \E l \in 1..Len(tasks) : \E res \in Outcomes : FetchDone(l, res) /\ UNCHANGED others
    \/ \E f \in 1..Len(forwarders) : \E res \in CallOutcomes : Forward(f, res)

\* The local executor runs the forwarding task when its recv can resolve.
JsFairness == WF_vars(Len(forwarders) >= 1 /\ \E res \in CallOutcomes : Forward(1, res))

JsSpec == Init /\ [][JsNext]_vars /\ JsFairness

\* C21: the callback has been called with the Rounds received from the queue,
\* each once and in delivery order; a call that fails changes nothing of the
\* loop and leaves the forwarding task running; every Round delivered is
\* eventually passed to the callback.
C21_CallsInOrder ==
    /\ Len(calls) = consumed
    /\ consumed <= Len(queue)
    /\ \A k \in 1..Len(calls) : calls[k].round = queue[k]

C21_FailedCallStep ==
    (Len(calls') = Len(calls) + 1 /\ Last(calls').res = "threw") =>
        /\ UNCHANGED pollVars
        /\ forwarders'[Last(calls').by] = "running"

C21_EveryRoundForwarded ==
    \A k \in 1..MaxAttempts : (Len(queue) >= k) ~> (Len(calls) >= k)

C21_CallbackForwarding ==
    []C21_CallsInOrder /\ [][C21_FailedCallStep]_vars /\ C21_EveryRoundForwarded

C21_Witness ==
    /\ Len(queue) = 3 /\ Len(calls) = 3
    /\ calls[1].res = "threw" /\ calls[2].res = "ok" /\ calls[3].res = "threw"
    /\ \A k \in 1..3 : calls[k].round = queue[k]

\* ------------------------------------------------- the stop() handshake

\* Termination notices stop() calls have sent, and acknowledgements tasks have
\* sent: those still queued and those already received.
NoticesSent == stopWaiting + stopReturned + stopErrored

NoticesConsumed == NoticesSent - termination

AcksSent == shutdown + stopReturned

DoubleInit == Init /\ target = "native" /\ Len(contracts) > 0

DoubleNext ==
    \/ Start /\ UNCHANGED others
    \/ StopCall /\ UNCHANGED others
    \/ StopReturn /\ UNCHANGED others
    \/ \E l \in 1..Len(tasks) : TaskEnter(l) /\ UNCHANGED others
    \/ \E l \in 1..Len(tasks) : SelectShutdown(l) /\ UNCHANGED others
    \/ \E l \in 1..Len(tasks) : SelectTick(l) /\ CountTick(l)
    \/ \E l \in 1..Len(tasks) : \E res \in Outcomes : FetchDone(l, res) /\ UNCHANGED others

DoubleSpec == DoubleInit /\ [][DoubleNext]_vars

\* C23: every start() adds a running task on the same channels; a stop() ends
\* exactly one task: with two tasks started and one stop() called, one task at
\* least keeps running, and when that stop() has returned exactly one task has
\* exited and the other is still in its loop; both tasks are ended only after
\* two stop() calls.
C23_OneStopOneLoop ==
    /\ Cardinality(RunningTasks) + Cardinality(Exited) = Len(tasks)
    /\ Cardinality(Exited) <= NoticesSent
    /\ (Len(tasks) = 2 /\ NoticesSent = 1) =>
           /\ Cardinality(RunningTasks) >= 1
           /\ stopReturned = 1 =>
                  Cardinality(Exited) = 1 /\ Cardinality(RunningTasks) = 1
    /\ (Len(tasks) = 2 /\ RunningTasks = {}) => NoticesSent >= 2

C23_Witness ==
    /\ Len(tasks) = 2
    /\ tasks[1].pc = "exited" /\ tasks[2].pc = "exited"
    /\ stopReturned = 2
    /\ \E k \in 1..Len(results) : results[k].task = 1
    /\ \E k \in 1..Len(results) : results[k].task = 2
    /\ Len(queue) >= 2

\* ------------------------------------------- stop() before any loop runs

\* stop() called once on a controller whose loop is not running yet, and
\* start() called once after it.
StaleNext ==
    \/ Len(tasks) = 0 /\ stopWaiting + stopReturned + stopErrored = 0 /\ StopCall
          /\ UNCHANGED others
    \/ Len(tasks) = 0 /\ stopWaiting = 1 /\ Start /\ UNCHANGED others
    \/ StopReturn /\ UNCHANGED others
    \/ CloseSink /\ DropAll
    \/ \E l \in 1..Len(tasks) : TaskEnter(l) /\ UNCHANGED others
    \/ \E l \in 1..Len(tasks) : Spin(l) /\ UNCHANGED others
    \/ \E l \in 1..Len(tasks) : SelectShutdown(l) /\ UNCHANGED others
    \/ \E l \in 1..Len(tasks) : SelectTick(l) /\ CountTick(l)
    \/ \E l \in 1..Len(tasks) : \E res \in Outcomes : FetchDone(l, res) /\ UNCHANGED others

StaleSpec == Init /\ [][StaleNext]_vars /\ Fairness

\* While a stop() waits, no task runs and no acknowledgement is queued, its
\* receive is pending (neither a value nor an error) and its notice is queued.
C24_BlockedWhileNoLoop ==
    (stopWaiting > 0 /\ RunningTasks = {} /\ shutdown = 0) =>
        /\ ShutdownRecv = "pending"
        /\ termination = stopWaiting

\* C24: a stop() issued while no loop runs sends its notice and blocks, the
\* notice staying queued; the loop a later start() spawns consumes the notice,
\* acknowledges and exits, and the blocked stop() returns.
C24_StaleNotice ==
    /\ []C24_BlockedWhileNoLoop
    /\ (stopWaiting > 0 /\ Len(tasks) > 0) ~> (stopReturned > 0 /\ Exited # {})

\* The same for a controller with at least one feed.
C24_StaleNoticeNonEmpty ==
    /\ []C24_BlockedWhileNoLoop
    /\ (stopWaiting > 0 /\ Len(tasks) > 0 /\ Len(contracts) > 0)
           ~> (stopReturned > 0 /\ Exited # {})

\* -------------------------------------------------------- empty feed list

\* C25: with no feed configured every started task stays in the empty loop: no
\* read is issued, nothing is delivered, no termination notice is consumed, no
\* acknowledgement is sent, and no stop() returns, with a value or an error.
C25_EmptyListSpins ==
    Len(contracts) = 0 =>
        /\ \A l \in 1..Len(tasks) : tasks[l].pc \in {"spawned", "loop", "for_end"}
        /\ results = <<>> /\ queue = <<>>
        /\ termination = NoticesSent
        /\ shutdown = 0
        /\ stopReturned = 0 /\ stopErrored = 0

C25_Witness ==
    /\ Len(contracts) = 0
    /\ Len(tasks) = 1 /\ tasks[1].pc = "for_end"
    /\ stopWaiting = 1 /\ termination = 1

\* ------------------------------------------------- a bounded reflector

\* One loop, one stop(), one subscriber side, over a reflector channel that is
\* unbounded or bounded.
BoundedInit ==
    /\ target = "native"
    /\ contracts \in FeedLists /\ Len(contracts) > 0
    /\ cap \in {Unbounded} \cup Caps
    /\ EngineIdle
    /\ LibIdle

BoundedNext ==
    \/ Len(tasks) = 0 /\ Start /\ UNCHANGED others
    \/ NoticesSent = 0 /\ StopCall /\ UNCHANGED others
    \/ StopReturn /\ UNCHANGED others
    \/ CloseSink /\ DropAll
    \/ \E r \in Receivers : Recv(r)
    \/ \E l \in 1..Len(tasks) : TaskEnter(l) /\ UNCHANGED others
    \/ \E l \in 1..Len(tasks) : SelectShutdown(l) /\ UNCHANGED others
    \/ \E l \in 1..Len(tasks) : SelectTick(l) /\ CountTick(l)
    \/ \E l \in 1..Len(tasks), res \in Outcomes : FetchDone(l, res) /\ UNCHANGED others
    \/ \E l \in 1..Len(tasks) : FetchSuspend(l) /\ UNCHANGED others
    \/ \E l \in 1..Len(tasks) : SendResume(l) /\ UNCHANGED others

BoundedSpec == BoundedInit /\ [][BoundedNext]_vars

\* A task is suspended in sender.send only on a bounded reflector, and a
\* bounded reflector never holds more than its capacity.
C26_SuspendsOnlyWhenBounded ==
    /\ cap = Unbounded => \A l \in 1..Len(tasks) : tasks[l].pc # "sending"
    /\ cap # Unbounded => Buffered <= cap

\* While a task is suspended on the full, open reflector no step moves it, takes
\* a termination notice or lets a stop() return.
C26_SuspendedStep ==
    \A l \in 1..Len(tasks) :
        (tasks[l].pc = "sending" /\ open /\ SinkFull) =>
            /\ tasks'[l].pc = "sending"
            /\ termination' >= termination
            /\ shutdown' = shutdown
            /\ stopReturned' = stopReturned /\ stopErrored' = stopErrored

\* A suspended task goes on only after a subscriber received a Round or the
\* reflector was closed.
C26_ResumeStep ==
    \A l \in 1..Len(tasks) :
        (tasks[l].pc = "sending" /\ tasks'[l].pc # "sending") => (~open \/ Buffered < cap)

\* C26: cancellation is not observed while a delivery is pending. On a full
\* bounded reflector with no subscriber receiving, the loop stays suspended in
\* the delivery and a stop() issued then does not return until a Round is
\* received or the reflector is closed; on an unbounded one the delivery never
\* suspends.
C26_DeliveryNotCancelled ==
    /\ []C26_SuspendsOnlyWhenBounded
    /\ [][C26_SuspendedStep /\ C26_ResumeStep]_vars

C26_Witness ==
    /\ cap # Unbounded /\ open /\ SinkFull
    /\ Len(tasks) = 1 /\ tasks[1].pc = "sending"
    /\ stopWaiting = 1 /\ termination = 1

====
